---- MODULE Spec2Model ----
(***************************************************************************)
(* A model of momox_agent.py: the extraction heuristics, the three-tier    *)
(* resolution engine check_isbn_on_momox, the two-pass batch scheduler     *)
(* scan_all_isbns and the change detector get_status_change.               *)
(*                                                                         *)
(* Representation.                                                         *)
(*  - Python None of an optional value is the empty sequence <<>>, a       *)
(*    present value x is <<x>>.  A remembered method is a string, with     *)
(*    the string "None" for an absent entry.                               *)
(*  - A decimal number is an integer number of thousandths ("mills"); a    *)
(*    returned price string str(round(pf, 2)) is the number of cents it    *)
(*    denotes ("2.5" is 250, "0.0" is 0).                                  *)
(*  - An HTML document is a sequence of tokens, each standing for a piece  *)
(*    of text:                                                             *)
(*      notbuy  "Diesen Artikel koennen wir leider nicht ankaufen"         *)
(*      footer  "<footer"                                                  *)
(*      du      "Du erhaeltst X,XX EUR-sign" with X,XX = v cents           *)
(*      blob    {"price": x} with x the JSON number of v mills             *)
(*  - An Outcome is [available, price, error]; the title, the url and the  *)
(*    isbn fields of the result dict play no part in any checked property  *)
(*    (the batch keeps the isbn beside the Outcome).                       *)
(***************************************************************************)
EXTENDS Integers, Sequences, FiniteSets, TLC

\* ------------------------------------------------------------------ bounds
\* Number of identifiers of a batch (ISBNS has 28).
NumIsbns == 2
\* Longest HTML document, in tokens, given to one strategy on its own.
MaxHtmlLen == 2
\* Longest HTML document, in tokens, served by a tier of the resolution engine.
MaxSiteLen == 2

\* ------------------------------------------------------------- basic values
NoneVal == <<>>
Some(x) == <<x>>
NoMethod == "None"

AllStrategies == <<"api", "plain", "render">>
Tiers == {"api", "plain", "render"}

\* for key in ["price", "purchasePrice", "sell_price", "ankaufspreis", "offer_price"]
PriceKeys == <<"price", "purchasePrice", "sell_price", "ankaufspreis", "offer_price">>

\* -------------------------------------------------------------- extraction
\* float(str(val).replace(",", ".")): a JSON number or a numeric string with
\* either decimal separator parses to its value; anything else raises
\* ValueError, which is <<>> here.
ParseFloat(val) ==
    IF val.kind \in {"num", "str_comma", "str_dot"} THEN Some(val.mills) ELSE NoneVal

\* 2^e modulo 1000.
RECURSIVE Pow2Mod1000(_)
Pow2Mod1000(e) == IF e = 0 THEN 1 ELSE (2 * Pow2Mod1000(e - 1)) % 1000

\* The binary exponent k of the double of mills/1000 (mills > 0):
\* 2^k <= mills/1000 < 2^(k+1).
BinaryExponent(mills) ==
    CHOOSE k \in -10..20 :
        IF k >= 0
        THEN 1000 * 2^k <= mills /\ mills < 1000 * 2^(k + 1)
        ELSE 1000 <= mills * 2^(-k) /\ mills * 2^(-k) < 2000

\* float(...) stores the double nearest to mills/1000, a multiple of
\* 2^(k-52).  The remainder of mills * 2^(52-k) on division by 1000 tells on
\* which side of mills/1000 it lies: 0 when the value is stored exactly, less
\* than 500 when the double lies below it, more than 500 when it lies above
\* (500 itself cannot occur).
FloatRemainder(mills) ==
    ((mills % 1000) * Pow2Mod1000(52 - BinaryExponent(mills))) % 1000

\* round(pf, 2) as cents.  Python rounds the stored double correctly: a value
\* that is no tie in decimal goes to the nearest cent; a decimal tie x.xx5
\* goes down when its double lies below it, up when it lies above it, and to
\* the even cent when it is stored exactly (x.125, x.375, x.625, x.875).
RECURSIVE RoundToCents(_)
RoundToCents(mills) ==
    IF mills < 0 THEN -RoundToCents(-mills)
    ELSE IF mills % 10 # 5 THEN (mills + 5) \div 10
    ELSE LET cents == mills \div 10
             r == FloatRemainder(mills)
         IN IF r = 0 THEN (IF cents % 2 = 0 THEN cents ELSE cents + 1)
            ELSE IF r < 500 THEN cents
            ELSE cents + 1

\* 0 < pf < 500
InBounds(mills) == 0 < mills /\ mills < 500000

\* The value tried for one key: val is not None, parses and lies in bounds.
KeyPrice(data, key) ==
    IF key \notin DOMAIN data THEN NoneVal
    ELSE LET pf == ParseFloat(data[key])
         IN IF pf # NoneVal /\ InBounds(pf[1])
            THEN Some(RoundToCents(pf[1]))
            ELSE NoneVal

RECURSIVE FirstKeyPrice(_, _)
FirstKeyPrice(data, keys) ==
    IF keys = <<>> THEN NoneVal
    ELSE LET p == KeyPrice(data, Head(keys))
         IN IF p # NoneVal THEN p ELSE FirstKeyPrice(data, Tail(keys))

\* parse_price_from_json(data): the first key, in PriceKeys order, whose value
\* parses and lies in bounds, rounded to cents.
parse_price_from_json(data) == FirstKeyPrice(data, PriceKeys)

\* html.lower().find("<footer"): the first footer token (0-based), -1 if none.
FooterPos(html) ==
    IF \E k \in 1..Len(html) : html[k].t = "footer"
    THEN (CHOOSE k \in 1..Len(html) :
             /\ html[k].t = "footer"
             /\ \A j \in 1..(k - 1) : html[j].t # "footer") - 1
    ELSE -1

\* html_main = html[:footer_pos] if footer_pos > 0 else html
HtmlMain(html) ==
    LET footer_pos == FooterPos(html)
    IN IF footer_pos > 0 THEN SubSeq(html, 1, footer_pos) ELSE html

\* re.search('Du\s+erh[äa]ltst.{0,200}?(\d{1,3}[,\.]\d{2})\s*€'): the first
\* announcement of the text, as cents.
FirstDu(text) ==
    IF \E k \in 1..Len(text) : text[k].t = "du"
    THEN Some(text[CHOOSE k \in 1..Len(text) :
                      /\ text[k].t = "du"
                      /\ \A j \in 1..(k - 1) : text[j].t # "du"].v)
    ELSE NoneVal

\* The blob scan: the first {...} blob mentioning "price" whose price parses,
\* lies in bounds and is not the known false positive "5.25".
RECURSIVE FirstBlobPrice(_)
FirstBlobPrice(text) ==
    IF text = <<>> THEN NoneVal
    ELSE LET tok == Head(text)
             price == IF tok.t = "blob"
                      THEN parse_price_from_json(
                               [k \in {"price"} |-> [kind |-> "num", mills |-> tok.v]])
                      ELSE NoneVal
         IN IF price # NoneVal /\ price # Some(525)
            THEN price
            ELSE FirstBlobPrice(Tail(text))

\* parse_price_from_html(html)
parse_price_from_html(html) ==
    LET html_main == HtmlMain(html)
        match == FirstDu(html_main)
    IN IF match # NoneVal /\ InBounds(match[1] * 10)
       THEN Some(RoundToCents(match[1] * 10))
       ELSE FirstBlobPrice(html_main)

\* is_not_buying(html): any(s in html.lower() for s in signals), anywhere in
\* the document.
is_not_buying(html) == \E k \in 1..Len(html) : html[k].t = "notbuy"

\* A text is the sequence of its characters.  The characters are those of
\* ASCII and the Kelvin sign U+212A, written "KELVIN", which is the only other
\* character whose lower() is a letter of "no_offer" or of "blocked".
NoOfferText == <<"n", "o", "_", "o", "f", "f", "e", "r">>
BlockedText == <<"b", "l", "o", "c", "k", "e", "d">>

\* c.lower() of one character.
LowerChar(c) ==
    CASE c = "A" -> "a" [] c = "B" -> "b" [] c = "C" -> "c" [] c = "D" -> "d"
      [] c = "E" -> "e" [] c = "F" -> "f" [] c = "G" -> "g" [] c = "H" -> "h"
      [] c = "I" -> "i" [] c = "J" -> "j" [] c = "K" -> "k" [] c = "L" -> "l"
      [] c = "M" -> "m" [] c = "N" -> "n" [] c = "O" -> "o" [] c = "P" -> "p"
      [] c = "Q" -> "q" [] c = "R" -> "r" [] c = "S" -> "s" [] c = "T" -> "t"
      [] c = "U" -> "u" [] c = "V" -> "v" [] c = "W" -> "w" [] c = "X" -> "x"
      [] c = "Y" -> "y" [] c = "Z" -> "z" [] c = "KELVIN" -> "k"
      [] OTHER -> c

\* needle in text
Contains(text, needle) ==
    \E k \in 0..(Len(text) - Len(needle)) :
        SubSeq(text, k + 1, k + Len(needle)) = needle

\* str(status).lower(), status being the text of str(status)
StatusLower(status) == [k \in 1..Len(status) |-> LowerChar(status[k])]

\* "no_offer" in str(status).lower() or "blocked" in str(status).lower()
StatusRefuses(status) ==
    \/ Contains(StatusLower(status), NoOfferText)
    \/ Contains(StatusLower(status), BlockedText)

\* ------------------------------------------------------------- strategies
\* A response is <<>> (scraper_get caught an exception and returned None) or
\* <<r>> with r.code the HTTP status.  An API body is of kind "html" (the text
\* starts with "<"), "badjson" (response.json() raises), "list" (JSON that is
\* no dict: data.get raises) or "dict" with its "status" field and its price
\* fields.  An HTML tier's body is the document.

\* `response and ...`: a requests.Response is truthy iff it is ok, and it is
\* ok unless its status is a client or a server error, 400 <= status < 600.
Truthy(response) ==
    response # NoneVal /\ ~(400 <= response[1].code /\ response[1].code < 600)

\* response and response.status_code == 200
Got200(response) == Truthy(response) /\ response[1].code = 200

Buy(price) == [available |-> TRUE, price |-> price, error |-> NoneVal]
NotBuy == [available |-> FALSE, price |-> NoneVal, error |-> NoneVal]
Failed(text) == [available |-> FALSE, price |-> NoneVal, error |-> Some(text)]

\* A variant of the api strategy that reports the price before it looks at the
\* status.
ApiStrategyPriceFirst(response) ==
    IF Got200(response) /\ response[1].kind = "dict"
    THEN LET price == parse_price_from_json(response[1].data)
         IN IF price # NoneVal THEN Some(Buy(price))
            ELSE IF StatusRefuses(response[1].jstatus) THEN Some(NotBuy)
            ELSE NoneVal
    ELSE NoneVal

\* The api branch of the loop body: <<outcome>> when it returns, <<>> when
\* it falls through to the next strategy.
ApiStrategy(response) ==
    IF Got200(response) /\ response[1].kind = "dict"
    THEN LET price == parse_price_from_json(response[1].data)
         IN IF StatusRefuses(response[1].jstatus) THEN Some(NotBuy)
            ELSE IF price # NoneVal THEN Some(Buy(price))
            ELSE NoneVal
    ELSE NoneVal

\* A variant of the HTML strategies that leaves the parsed price in a
\* not-buying result.
HtmlStrategyKeepsPrice(response) ==
    IF Got200(response)
    THEN LET html == response[1].html
             price == parse_price_from_html(html)
         IN IF is_not_buying(html)
            THEN Some([available |-> FALSE, price |-> price, error |-> NoneVal])
            ELSE IF price # NoneVal THEN Some(Buy(price))
            ELSE NoneVal
    ELSE NoneVal

\* The plain and the render branch up to their last conclusive return.
HtmlStrategy(response) ==
    IF Got200(response)
    THEN LET html == response[1].html
             price == parse_price_from_html(html)
         IN IF is_not_buying(html) THEN Some(NotBuy)
            ELSE IF price # NoneVal THEN Some(Buy(price))
            ELSE NoneVal
    ELSE NoneVal

TryStrategy(strategy, response) ==
    IF strategy = "api" THEN ApiStrategy(response) ELSE HtmlStrategy(response)

\* status = str(response.status_code) if response else "no response"
LastStatus(response) ==
    IF Truthy(response) THEN ToString(response[1].code) ELSE "no response"

\* ------------------------------------------------------ resolution engine
\* A variant that keeps the cost order whatever the remembered method.
StrategiesCostOrder(known_method) == AllStrategies

\* A variant that puts the remembered method first and leaves it in the
\* fallback list as well.
StrategiesWithRepeat(known_method) ==
    IF known_method # NoMethod /\ known_method \in Tiers
    THEN <<known_method>> \o AllStrategies
    ELSE AllStrategies

\* strategies = [known_method] + [s for s in strategies if s != known_method]
Strategies(known_method) ==
    IF known_method # NoMethod /\ known_method \in Tiers
    THEN <<known_method>> \o SelectSeq(AllStrategies, LAMBDA s : s # known_method)
    ELSE AllStrategies

\* The for loop over the strategies: calls is the list of the tiers executed so
\* far, each with whether it was conclusive.
RECURSIVE RunStrategies(_, _, _)
RunStrategies(strategies, resp, calls) ==
    IF strategies = <<>>
    THEN [result |-> Failed(<<"Could not retrieve data">>), method |-> NoMethod,
          calls |-> calls]
    ELSE LET strategy == Head(strategies)
             out == TryStrategy(strategy, resp[strategy])
             done == Append(calls, [tier |-> strategy, ok |-> out # NoneVal])
         IN IF out # NoneVal
            THEN [result |-> out[1], method |-> strategy, calls |-> done]
            ELSE IF strategy = "render"
            THEN [result |-> Failed(<<"All strategies failed (last HTTP: ",
                                      LastStatus(resp[strategy]), ")">>),
                  method |-> NoMethod, calls |-> done]
            ELSE RunStrategies(Tail(strategies), resp, done)

\* check_isbn_on_momox(isbn, known_method) against a site that answers tier t
\* with resp[t]: the result, the method that worked and the tiers executed.
check_isbn_on_momox(resp, known_method) ==
    RunStrategies(Strategies(known_method), resp, <<>>)

\* ----------------------------------------------------------------- inputs
SeqsUpTo(S, n) == UNION {[1..k -> S] : k \in 0..n}

Tok(t, v) == [t |-> t, v |-> v]

\* "Du erhaeltst 2,50", "Du erhaeltst 0,00", {"price": 1.64}, {"price": 5.25}
Tokens ==
    {Tok("notbuy", 0), Tok("footer", 0), Tok("du", 250), Tok("du", 0),
     Tok("blob", 1640), Tok("blob", 5250)}

HtmlDocs == SeqsUpTo(Tokens, MaxHtmlLen)

JVal(kind, mills) == [kind |-> kind, mills |-> mills]

\* "1,64", 2.5, "0,00", 500.0, 0.004, "n/a", and the ties 0.015 (its double
\* lies below), 0.025 (above) and 0.125 (exact)
JsonValues ==
    {JVal("str_comma", 1640), JVal("num", 2500), JVal("str_comma", 0),
     JVal("num", 500000), JVal("num", 4), JVal("junk", 0),
     JVal("num", 15), JVal("num", 25), JVal("num", 125)}

JsonDatas ==
    UNION {[keys -> JsonValues] : keys \in SUBSET {"price", "offer_price"}}

ApiBody(code, kind, jstatus, data) ==
    [code |-> code, kind |-> kind, jstatus |-> jstatus, data |-> data]

HtmlBody(code, html) == [code |-> code, html |-> html]

NoData == [k \in {} |-> JVal("junk", 0)]

Codes == {200, 204, 500, 600}

\* The "status" field of an API body, as the text of str(status).
Statuses ==
    {<<>>, <<"o", "k">>, NoOfferText, BlockedText,
     <<"N", "O", "_", "O", "F", "F", "E", "R">>,
     <<"N", "o", "_", "O", "f", "f", "e", "r">>,
     <<"B", "L", "O", "C", "KELVIN", "E", "D">>,
     NoOfferText \o <<"_", "t", "o", "d", "a", "y">>,
     <<"i", "p", "_">> \o BlockedText,
     <<"b", "l", "o", "c", "k">>}

ApiResponses ==
    {NoneVal}
    \cup {Some(ApiBody(c, k, <<>>, NoData)) : c \in Codes, k \in {"html", "badjson", "list"}}
    \cup {Some(ApiBody(c, "dict", st, d)) :
             c \in Codes, st \in Statuses,
             d \in JsonDatas}

HtmlResponses ==
    {NoneVal} \cup {Some(HtmlBody(c, h)) : c \in Codes, h \in HtmlDocs}

Responses(tier) == IF tier = "api" THEN ApiResponses ELSE HtmlResponses

\* The responses served by the tiers of a resolution: a subset of the above.
SiteTokens == {Tok("notbuy", 0), Tok("du", 250), Tok("du", 0)}

SiteDocs == SeqsUpTo(SiteTokens, MaxSiteLen)

SiteResponses(tier) ==
    IF tier = "api"
    THEN {NoneVal, Some(ApiBody(500, "html", <<>>, NoData)),
          Some(ApiBody(200, "html", <<>>, NoData))}
         \cup {Some(ApiBody(200, "dict", st, d)) :
                  st \in {<<>>, NoOfferText},
                  d \in {NoData, [k \in {"price"} |-> JVal("str_comma", 1640)]}}
    ELSE {NoneVal, Some(HtmlBody(500, <<>>)), Some(HtmlBody(204, <<>>)),
          Some(HtmlBody(600, <<Tok("du", 250)>>))}
         \cup {Some(HtmlBody(200, h)) : h \in SiteDocs}

RespOf(a, p, r) ==
    [t \in Tiers |-> CASE t = "api" -> a [] t = "plain" -> p [] OTHER -> r]

SiteResps ==
    {RespOf(a, p, r) : a \in SiteResponses("api"), p \in SiteResponses("plain"),
                       r \in SiteResponses("render")}

\* The responses a tier gives during a batch.
BatchResponses(tier) ==
    IF tier = "api"
    THEN {NoneVal, Some(ApiBody(200, "html", <<>>, NoData)),
          Some(ApiBody(200, "dict", NoOfferText, NoData)),
          Some(ApiBody(200, "dict", <<>>, [k \in {"price"} |-> JVal("str_comma", 1640)]))}
    ELSE {NoneVal, Some(HtmlBody(200, <<>>)), Some(HtmlBody(200, <<Tok("notbuy", 0)>>)),
          Some(HtmlBody(200, <<Tok("du", 250)>>))}

Methods == Tiers \cup {NoMethod}

Isbns == [k \in 1..NumIsbns |-> k]
IsbnSet == 1..NumIsbns

\* ------------------------------------------------------------------ state
VARIABLES
    ext,            \* one strategy applied to one response
    eng,            \* one resolution of one identifier
    chg,            \* one call of get_status_change
    pc,             \* where main / scan_all_isbns stands
    apiKeySet,      \* SCRAPER_API_KEY is non-empty
    methodsFile,    \* isbn_methods.json
    methodsAtStart, \* isbn_methods.json as it was when the run began
    otherWorks,     \* otherWorks[i] iff, of the responses given at the latest
                    \* resolution of identifier i, one of a tier other than
                    \* the remembered one is conclusive
    methods,        \* scan_all_isbns: methods
    idx,            \* scan_all_isbns: i of the pass-1 loop
    pending_render, \* scan_all_isbns: pending_render
    pidx,           \* scan_all_isbns: i of the pass-2 loop
    results,        \* scan_all_isbns: results
    log,            \* the network calls, the sleeps and the reads and writes
                    \* of isbn_methods.json made, in order
    historyFile,    \* isbn_history.json
    historyAtStart, \* isbn_history.json as main loaded it
    report          \* main: what generate_report returned

mainVars == <<historyFile, historyAtStart, report>>
batchVars == <<pc, apiKeySet, methodsFile, methodsAtStart, otherWorks, methods, idx,
               pending_render, pidx, results, log, mainVars>>
vars == <<ext, eng, chg, pc, apiKeySet, methodsFile, methodsAtStart, otherWorks,
          methods, idx, pending_render, pidx, results, log, mainVars>>

NoReport == [total |-> 0, available |-> <<>>, not_available |-> <<>>, errors |-> <<>>]

NoRun == [result |-> NotBuy, method |-> NoMethod, calls |-> <<>>]

ExtIdle == [pc |-> "idle", tier |-> "api", resp |-> NoneVal, out |-> NoneVal]
EngIdle == [pc |-> "idle", resp |-> RespOf(NoneVal, NoneVal, NoneVal),
            known |-> NoMethod, res |-> NoRun, base |-> NoRun]
ChgIdle == [pc |-> "idle", isbn |-> 1, today |-> FALSE,
            history |-> [i \in IsbnSet |-> NoneVal], label |-> ""]

BatchIdle ==
    /\ pc = "idle"
    /\ apiKeySet = FALSE
    /\ methodsFile = [i \in IsbnSet |-> NoMethod]
    /\ methodsAtStart = methodsFile
    /\ otherWorks = [i \in IsbnSet |-> FALSE]
    /\ methods = methodsFile
    /\ idx = 0
    /\ pending_render = <<>>
    /\ pidx = 0
    /\ results = <<>>
    /\ log = <<>>
    /\ historyFile = [i \in IsbnSet |-> NoneVal]
    /\ historyAtStart = historyFile
    /\ report = NoReport

\* ------------------------------------------- one strategy on one response
ExtInit ==
    /\ ext \in {[pc |-> "input", tier |-> t, resp |-> r, out |-> NoneVal] :
                   t \in Tiers, r \in ApiResponses \cup HtmlResponses}
    /\ ext.resp \in Responses(ext.tier)
    /\ eng = EngIdle
    /\ chg = ChgIdle
    /\ BatchIdle

ExtApply ==
    /\ ext.pc = "input"
    /\ ext' = [ext EXCEPT !.pc = "done", !.out = TryStrategy(ext.tier, ext.resp)]
    /\ UNCHANGED <<eng, chg, batchVars>>

ExtNext == ExtApply

SpecExtract == ExtInit /\ [][ExtNext]_vars

\* --------------------------------------------------------- one resolution
EngInit ==
    /\ eng \in {[pc |-> "input", resp |-> r, known |-> k, res |-> NoRun, base |-> NoRun] :
                   r \in SiteResps, k \in Methods}
    /\ ext = ExtIdle
    /\ chg = ChgIdle
    /\ BatchIdle

\* The resolution from the remembered method, and beside it the resolution of
\* the same responses from the cheapest tier.
EngResolve ==
    /\ eng.pc = "input"
    /\ eng' = [eng EXCEPT !.pc = "done",
                          !.res = check_isbn_on_momox(eng.resp, eng.known),
                          !.base = check_isbn_on_momox(eng.resp, NoMethod)]
    /\ UNCHANGED <<ext, chg, batchVars>>

EngNext == EngResolve

SpecEngine == EngInit /\ [][EngNext]_vars

\* ------------------------------------------------------- change detector
\* A variant with the two transition labels exchanged.
get_status_change_swapped(isbn, currently_available, history) ==
    LET yesterday == history[isbn]
    IN IF yesterday = NoneVal THEN "(first scan)"
       ELSE LET was_available == yesterday[1].available
            IN IF ~was_available /\ currently_available THEN "(no longer available)"
               ELSE IF was_available /\ ~currently_available THEN "*** NOW AVAILABLE ***"
               ELSE ""

\* get_status_change(isbn, currently_available, history); history[isbn] is
\* history.get(isbn).
get_status_change(isbn, currently_available, history) ==
    LET yesterday == history[isbn]
    IN IF yesterday = NoneVal THEN "(first scan)"
       ELSE LET was_available == yesterday[1].available
            IN IF ~was_available /\ currently_available THEN "*** NOW AVAILABLE ***"
               ELSE IF was_available /\ ~currently_available THEN "(no longer available)"
               ELSE ""

\* The entries main writes to the history: what a result holds.
HistoryEntries ==
    {[available |-> TRUE, price |-> Some(164)], [available |-> TRUE, price |-> Some(250)],
     [available |-> FALSE, price |-> NoneVal]}

Histories == [IsbnSet -> {NoneVal} \cup {Some(e) : e \in HistoryEntries}]

ChgInit ==
    /\ chg \in {[pc |-> "input", isbn |-> i, today |-> a, history |-> h, label |-> ""] :
                   i \in IsbnSet, a \in BOOLEAN, h \in Histories}
    /\ ext = ExtIdle
    /\ eng = EngIdle
    /\ BatchIdle

ChgApply ==
    /\ chg.pc = "input"
    /\ chg' = [chg EXCEPT !.pc = "done",
                          !.label = get_status_change(chg.isbn, chg.today, chg.history)]
    /\ UNCHANGED <<ext, eng, batchVars>>

ChgNext == ChgApply

SpecChange == ChgInit /\ [][ChgNext]_vars

\* ------------------------------------------------------- batch scheduler
\* A variant that drops the entry of an identifier whose resolution failed.
UpdateMethodsInvalidating(m, isbn, method) == [m EXCEPT ![isbn] = method]

\* A variant that records a method only for an identifier that has none.
UpdateMethodsKeepsFirst(m, isbn, method) ==
    IF method # NoMethod /\ m[isbn] = NoMethod THEN [m EXCEPT ![isbn] = method] ELSE m

\* if method: methods[isbn] = method
UpdateMethods(m, isbn, method) ==
    IF method # NoMethod THEN [m EXCEPT ![isbn] = method] ELSE m

\* The responses scraper_get may give the tiers during one resolution: any
\* of them, whatever was answered in an earlier resolution.
RunResps ==
    {RespOf(a, p, r) : a \in BatchResponses("api"), p \in BatchResponses("plain"),
                       r \in BatchResponses("render")}

\* Some tier other than the remembered one answers resp conclusively.
OtherAnswers(resp, remembered) ==
    \E t \in Tiers \ {remembered} : TryStrategy(t, resp[t]) # NoneVal

\* The log entries of the calls of one resolution, and of one sleep.
CallEvents(isbn, pass, calls) ==
    [k \in 1..Len(calls) |->
        [e |-> "call", isbn |-> isbn, tier |-> calls[k].tier, ok |-> calls[k].ok,
         pass |-> pass]]

SleepEvent(isbn, pass) ==
    [e |-> "sleep", isbn |-> isbn, tier |-> "", ok |-> FALSE, pass |-> pass]

\* if i < len(...): time.sleep(DELAY_BETWEEN_REQUESTS)
SleepIf(i, n, isbn, pass) == IF i < n THEN <<SleepEvent(isbn, pass)>> ELSE <<>>

ResultOf(isbn, outcome) ==
    [isbn |-> isbn, available |-> outcome.available, price |-> outcome.price,
     error |-> outcome.error]

\* Where the run stands after iteration i of the pass-1 loop.
AfterPass1(i, pending) ==
    IF i < Len(Isbns) THEN "pass1"
    ELSE IF pending # <<>> THEN "pass2" ELSE "save"

\* A read or a write of isbn_methods.json.
FileEvent(what) == [e |-> what, isbn |-> 0, tier |-> "", ok |-> FALSE, pass |-> 0]

\* A variant of the credential test that lets an empty key through.
CredentialCheckOff(key) == FALSE

\* if not SCRAPER_API_KEY
CredentialMissing(key) == ~key

\* isbn_history.json when main starts: the file of an earlier run that scanned
\* the first identifier only, and found it buyable.
RunHistories ==
    {[i \in IsbnSet |-> IF i = 1
                        THEN Some([available |-> TRUE, price |-> Some(164)])
                        ELSE NoneVal]}

BatchInit ==
    /\ pc = "start"
    /\ apiKeySet \in BOOLEAN
    /\ methodsFile \in [IsbnSet -> Methods]
    /\ methodsAtStart = methodsFile
    /\ otherWorks = [i \in IsbnSet |-> FALSE]
    /\ methods = [i \in IsbnSet |-> NoMethod]
    /\ idx = 1
    /\ pending_render = <<>>
    /\ pidx = 1
    /\ results = <<>>
    /\ log = <<>>
    /\ historyFile \in RunHistories
    /\ historyAtStart = historyFile
    /\ report = NoReport
    /\ ext = ExtIdle
    /\ eng = EngIdle
    /\ chg = ChgIdle

\* if not SCRAPER_API_KEY: raise ValueError
ScanAbort ==
    /\ pc = "start"
    /\ CredentialMissing(apiKeySet)
    /\ pc' = "aborted"
    /\ UNCHANGED <<ext, eng, chg, mainVars, apiKeySet, methodsFile, methodsAtStart, otherWorks,
                   methods, idx, pending_render, pidx, results, log>>

\* methods = load_methods(); results = []; pending_render = []; with an empty
\* list both loops make no iteration and the run goes on to save_methods.
ScanStart ==
    /\ pc = "start"
    /\ ~CredentialMissing(apiKeySet)
    /\ methods' = methodsFile
    /\ log' = Append(log, FileEvent("load"))
    /\ pc' = AfterPass1(0, <<>>)
    /\ UNCHANGED <<ext, eng, chg, mainVars, apiKeySet, methodsFile, methodsAtStart, otherWorks,
                   idx, pending_render, pidx, results>>

\* Pass 1, an identifier remembered as "render": queued without a call.
Pass1Defer ==
    /\ pc = "pass1"
    /\ idx <= Len(Isbns)
    /\ methods[Isbns[idx]] = "render"
    /\ pending_render' = Append(pending_render, Isbns[idx])
    /\ idx' = idx + 1
    /\ pc' = AfterPass1(idx, pending_render')
    /\ UNCHANGED <<ext, eng, chg, mainVars, apiKeySet, methodsFile, methodsAtStart, otherWorks,
                   methods, pidx, results, log>>

\* Pass 1, any other identifier: one resolution, then either the queue (no
\* method worked) or the result, the memory update and the sleep.
Pass1Resolve ==
    /\ pc = "pass1"
    /\ idx <= Len(Isbns)
    /\ methods[Isbns[idx]] # "render"
    /\ \E resp \in RunResps :
          LET isbn == Isbns[idx]
              r == check_isbn_on_momox(resp, methods[isbn])
              called == CallEvents(isbn, 1, r.calls)
          IN /\ otherWorks' = [otherWorks EXCEPT
                                   ![isbn] = OtherAnswers(resp, methodsAtStart[isbn])]
             /\ IF r.method = NoMethod
                THEN /\ pending_render' = Append(pending_render, isbn)
                     /\ log' = log \o called
                     /\ UNCHANGED <<methods, results>>
                ELSE /\ methods' = UpdateMethods(methods, isbn, r.method)
                     /\ results' = Append(results, ResultOf(isbn, r.result))
                     /\ log' = log \o called \o SleepIf(idx, Len(Isbns), isbn, 1)
                     /\ UNCHANGED pending_render
    /\ idx' = idx + 1
    /\ pc' = AfterPass1(idx, pending_render')
    /\ UNCHANGED <<ext, eng, chg, mainVars, apiKeySet, methodsFile, methodsAtStart, pidx>>

\* A variant of pass 2 that writes isbn_methods.json after every resolution.
Pass2ResolveSaving ==
    /\ pc = "pass2"
    /\ pidx <= Len(pending_render)
    /\ \E resp \in RunResps :
          LET isbn == pending_render[pidx]
              r == check_isbn_on_momox(resp, "render")
          IN /\ otherWorks' = [otherWorks EXCEPT
                                   ![isbn] = OtherAnswers(resp, methodsAtStart[isbn])]
             /\ methods' = UpdateMethods(methods, isbn, r.method)
             /\ results' = Append(results, ResultOf(isbn, r.result))
             /\ log' = log \o CallEvents(isbn, 2, r.calls)
                           \o <<FileEvent("save")>>
                           \o SleepIf(pidx, Len(pending_render), isbn, 2)
    /\ methodsFile' = methods'
    /\ pidx' = pidx + 1
    /\ pc' = IF pidx < Len(pending_render) THEN "pass2" ELSE "save"
    /\ UNCHANGED <<ext, eng, chg, mainVars, apiKeySet, methodsAtStart,
                   idx, pending_render>>

\* Pass 2: one resolution, started from "render", of a queued identifier.
Pass2Resolve ==
    /\ pc = "pass2"
    /\ pidx <= Len(pending_render)
    /\ \E resp \in RunResps :
          LET isbn == pending_render[pidx]
              r == check_isbn_on_momox(resp, "render")
          IN /\ otherWorks' = [otherWorks EXCEPT
                                   ![isbn] = OtherAnswers(resp, methodsAtStart[isbn])]
             /\ methods' = UpdateMethods(methods, isbn, r.method)
             /\ results' = Append(results, ResultOf(isbn, r.result))
             /\ log' = log \o CallEvents(isbn, 2, r.calls)
                           \o SleepIf(pidx, Len(pending_render), isbn, 2)
    /\ pidx' = pidx + 1
    /\ pc' = IF pidx < Len(pending_render) THEN "pass2" ELSE "save"
    /\ UNCHANGED <<ext, eng, chg, mainVars, apiKeySet, methodsFile, methodsAtStart,
                   idx, pending_render>>

\* A call of scraper_get that never returns.  The timeout given to
\* requests.get bounds the connect and each read, not the call: against a
\* server that keeps sending a little before each read times out, requests.get
\* neither returns nor raises.  The calls of the resolution made before it are
\* logged; the run stays inside the call.
ScraperGetBlocks ==
    /\ \/ pc = "pass1" /\ idx <= Len(Isbns) /\ methods[Isbns[idx]] # "render"
       \/ pc = "pass2" /\ pidx <= Len(pending_render)
    /\ \E resp \in RunResps :
          LET isbn == IF pc = "pass1" THEN Isbns[idx] ELSE pending_render[pidx]
              known == IF pc = "pass1" THEN methods[isbn] ELSE "render"
              pass == IF pc = "pass1" THEN 1 ELSE 2
              called == CallEvents(isbn, pass, check_isbn_on_momox(resp, known).calls)
          IN \E k \in 1..Len(called) : log' = log \o SubSeq(called, 1, k - 1)
    /\ pc' = "blocked_in_get"
    /\ UNCHANGED <<ext, eng, chg, mainVars, apiKeySet, methodsFile, methodsAtStart,
                   otherWorks, methods, idx, pending_render, pidx, results>>

\* save_methods(methods); return results
SaveMethods ==
    /\ pc = "save"
    /\ methodsFile' = methods
    /\ log' = Append(log, FileEvent("save"))
    /\ pc' = "done"
    /\ UNCHANGED <<ext, eng, chg, mainVars, apiKeySet, methodsAtStart, otherWorks, methods, idx,
                   pending_render, pidx, results>>

\* ------------------------------------------------------------------ main
\* `if r["error"]`: the error is a non-empty string.
HasError(r) ==
    r.error # NoneVal /\ \E j \in 1..Len(r.error[1]) : r.error[1][j] # ""

\* available = [r for r in results if r["available"]]
ReportAvailable(rs) == SelectSeq(rs, LAMBDA r : r.available)

\* A variant that leaves the error test out of the second section.
ReportNotAvailableWithErrors(rs) == SelectSeq(rs, LAMBDA r : ~r.available)

\* not_available = [r for r in results if not r["available"] and not r["error"]]
ReportNotAvailable(rs) == SelectSeq(rs, LAMBDA r : ~r.available /\ ~HasError(r))

\* errors = [r for r in results if r["error"]]
ReportErrors(rs) == SelectSeq(rs, LAMBDA r : HasError(r))

\* One row of a section that shows the change label.
ChangeRow(r, currently_available, history) ==
    [isbn |-> r.isbn, price |-> r.price, error |-> r.error,
     change |-> Some(get_status_change(r.isbn, currently_available, history))]

\* One row of the errors section: no change label is computed.
ErrorRow(r) == [isbn |-> r.isbn, price |-> r.price, error |-> r.error, change |-> NoneVal]

\* generate_report(results, history): the counts and the rows of the three
\* sections (the plain text and the HTML hold the same rows).
generate_report(rs, history) ==
    LET available == ReportAvailable(rs)
        not_available == ReportNotAvailable(rs)
        errors == ReportErrors(rs)
    IN [total |-> Len(rs),
        available |-> [n \in 1..Len(available) |-> ChangeRow(available[n], TRUE, history)],
        not_available |->
            [n \in 1..Len(not_available) |-> ChangeRow(not_available[n], FALSE, history)],
        errors |-> [n \in 1..Len(errors) |-> ErrorRow(errors[n])]]

\* A variant that keeps the old entry of an identifier whose Outcome is an
\* error.
RECURSIVE UpdateHistoryKeepsOnError(_, _)
UpdateHistoryKeepsOnError(history, rs) ==
    IF rs = <<>> THEN history
    ELSE LET r == Head(rs)
         IN UpdateHistoryKeepsOnError(
                IF r.error # NoneVal THEN history
                ELSE [history EXCEPT ![r.isbn] =
                         Some([available |-> r.available, price |-> r.price])],
                Tail(rs))

\* for r in results: history[r["isbn"]] = {...}
RECURSIVE UpdateHistory(_, _)
UpdateHistory(history, rs) ==
    IF rs = <<>> THEN history
    ELSE LET r == Head(rs)
         IN UpdateHistory(
                [history EXCEPT ![r.isbn] =
                    Some([available |-> r.available, price |-> r.price])],
                Tail(rs))

\* plain_text, html = generate_report(results, history)
Report ==
    /\ pc = "done"
    /\ report' = generate_report(results, historyFile)
    /\ pc' = "reported"
    /\ UNCHANGED <<ext, eng, chg, apiKeySet, methodsFile, methodsAtStart, otherWorks,
                   methods, idx, pending_render, pidx, results, log, historyFile,
                   historyAtStart>>

\* send_email returns.
SendEmailOk ==
    /\ pc = "reported"
    /\ pc' = "sent"
    /\ UNCHANGED <<ext, eng, chg, mainVars, apiKeySet, methodsFile, methodsAtStart,
                   otherWorks, methods, idx, pending_render, pidx, results, log>>

\* send_email raises: main logs the failure and raises again.
SendEmailFail ==
    /\ pc = "reported"
    /\ pc' = "email_failed"
    /\ UNCHANGED <<ext, eng, chg, mainVars, apiKeySet, methodsFile, methodsAtStart,
                   otherWorks, methods, idx, pending_render, pidx, results, log>>

\* send_email never returns: smtplib.SMTP_SSL is given no timeout, so a
\* server that accepts the connection and then stays silent keeps main inside
\* the call.
SendEmailBlocks ==
    /\ pc = "reported"
    /\ pc' = "blocked_in_send"
    /\ UNCHANGED <<ext, eng, chg, mainVars, apiKeySet, methodsFile, methodsAtStart,
                   otherWorks, methods, idx, pending_render, pidx, results, log>>

\* The history loop and save_history(history).
SaveHistory ==
    /\ pc = "sent"
    /\ historyFile' = UpdateHistory(historyFile, results)
    /\ pc' = "finished"
    /\ UNCHANGED <<ext, eng, chg, apiKeySet, methodsFile, methodsAtStart, otherWorks,
                   methods, idx, pending_render, pidx, results, log, historyAtStart,
                   report>>

Next ==
    \/ ScanAbort
    \/ ScanStart
    \/ Pass1Defer
    \/ Pass1Resolve
    \/ Pass2Resolve
    \/ ScraperGetBlocks
    \/ SaveMethods
    \/ Report
    \/ SendEmailOk
    \/ SendEmailFail
    \/ SendEmailBlocks
    \/ SaveHistory

Init == BatchInit

Spec == Init /\ [][Next]_vars

\* The run is one sequential thread: the interpreter goes on to its next
\* statement, so a step that can be taken is taken.  A network call that never
\* returns is itself a step, ScraperGetBlocks or SendEmailBlocks, after which
\* nothing more is taken.
FairSpec == Init /\ [][Next]_vars /\ WF_vars(Next)

\* ================================================================ claims
\* C1: for fixed responses of the three tiers, the resolution started from any
\* remembered method returns the same Outcome (availability, price, error) as
\* the resolution started from the cheapest tier.
C1_SameOutcomeFromAnyStart ==
    eng.pc = "done" => eng.res.result = eng.base.result

\* C2: every Outcome the resolution returns has a price iff it is buyable and
\* an error iff it is unknown (no tier was conclusive); a buyable Outcome has
\* no error and an Outcome with an error is not buyable.
C2_PriceIffBuyable ==
    eng.pc = "done" =>
        LET o == eng.res.result
            unknown == \A k \in 1..Len(eng.res.calls) : ~eng.res.calls[k].ok
        IN /\ (o.price # NoneVal) <=> o.available
           /\ (o.error # NoneVal) <=> unknown
           /\ o.available => o.error = NoneVal
           /\ o.error # NoneVal => ~o.available /\ o.price = NoneVal

C2_Witness ==
    /\ eng.pc = "done"
    /\ eng.known = "plain"
    /\ eng.res.method = "render"
    /\ eng.res.result.available
    /\ eng.res.result.price = Some(250)

\* C3: the resolution returns the unknown Outcome only after each of the three
\* tiers was executed in it, whatever the remembered method.
C3_ExhaustedOnlyAfterAllTiers ==
    (eng.pc = "done" /\ eng.res.result.error # NoneVal) =>
        \A t \in Tiers : \E k \in 1..Len(eng.res.calls) : eng.res.calls[k].tier = t

\* The response is an HTTP 200 that carries a not-buy signal.
CarriesNotBuy(tier, response) ==
    /\ response # NoneVal
    /\ response[1].code = 200
    /\ IF tier = "api"
       THEN /\ response[1].kind = "dict"
            /\ \/ Contains(response[1].jstatus, NoOfferText)
               \/ Contains(response[1].jstatus, <<"N", "O", "_", "O", "F", "F", "E", "R">>)
       ELSE \E k \in 1..Len(response[1].html) : response[1].html[k].t = "notbuy"

\* The response holds a price the tier's parser accepts.
CarriesPrice(tier, response) ==
    /\ response # NoneVal
    /\ IF tier = "api"
       THEN response[1].kind = "dict" /\ parse_price_from_json(response[1].data) # NoneVal
       ELSE parse_price_from_html(response[1].html) # NoneVal

\* C9: in every tier, an HTTP 200 response that carries a not-buy signal (API
\* status no_offer; a not-buy phrase anywhere in the HTML) gives a conclusive
\* Outcome with available = false and no price, also when the response holds a
\* valid price.
C9_NotBuyBeatsPrice ==
    (ext.pc = "done" /\ CarriesNotBuy(ext.tier, ext.resp)) =>
        /\ ext.out # NoneVal
        /\ ~ext.out[1].available
        /\ ext.out[1].price = NoneVal
        /\ ext.out[1].error = NoneVal

C9_Witness ==
    /\ ext.pc = "done"
    /\ ext.tier = "api"
    /\ CarriesNotBuy(ext.tier, ext.resp)
    /\ CarriesPrice(ext.tier, ext.resp)
    /\ ext.out = Some(NotBuy)

\* C10: get_status_change returns "(first scan)" iff the identifier is absent
\* from the history, the now-available label iff the prior entry was not
\* available and today is, the no-longer-available label iff the prior entry
\* was available and today is not, and the empty label iff availability is
\* unchanged.
C10_StatusChangeLabels ==
    chg.pc = "done" =>
        LET prior == chg.history[chg.isbn]
            was == prior # NoneVal /\ prior[1].available
        IN /\ (chg.label = "(first scan)") <=> (prior = NoneVal)
           /\ (chg.label = "*** NOW AVAILABLE ***")
                  <=> (prior # NoneVal /\ ~was /\ chg.today)
           /\ (chg.label = "(no longer available)")
                  <=> (prior # NoneVal /\ was /\ ~chg.today)
           /\ (chg.label = "") <=> (prior # NoneVal /\ (was <=> chg.today))

C10_Witness ==
    /\ chg.pc = "done"
    /\ chg.history[chg.isbn] # NoneVal
    /\ ~chg.history[chg.isbn][1].available
    /\ chg.today
    /\ chg.label = "*** NOW AVAILABLE ***"

\* The network calls made for identifier i in the run so far.
CallsOf(i) == {k \in 1..Len(log) : log[k].e = "call" /\ log[k].isbn = i}

\* C4: an identifier for which no tier was conclusive in the completed run has
\* an unknown Outcome with a non-empty error, and its Method Memory entry is
\* what it was before the run.
C4_ExhaustedLeavesMemory ==
    pc = "done" =>
        \A i \in IsbnSet :
            (\A k \in CallsOf(i) : ~log[k].ok) =>
                /\ \E n \in 1..Len(results) :
                      /\ results[n].isbn = i
                      /\ ~results[n].available
                      /\ results[n].error # NoneVal
                      /\ \E j \in 1..Len(results[n].error[1]) :
                            results[n].error[1][j] # ""
                /\ \A n \in 1..Len(results) :
                      results[n].isbn = i => results[n].error # NoneVal
                /\ methodsFile[i] = methodsAtStart[i]

C4_Witness ==
    /\ pc = "done"
    /\ \E i \in IsbnSet :
          /\ methodsAtStart[i] = "plain"
          /\ methodsFile[i] = "plain"
          /\ \A k \in CallsOf(i) : ~log[k].ok
          /\ \A t \in Tiers : \E k \in CallsOf(i) : log[k].tier = t

\* C5: after the run, the Method Memory entry of every identifier that was
\* resolved conclusively is the tier that gave the conclusive Outcome, also
\* when that tier is cheaper than the one remembered before.
C5_MemoryIsConclusiveTier ==
    pc = "done" =>
        \A i \in IsbnSet : \A k \in CallsOf(i) :
            log[k].ok => methodsFile[i] = log[k].tier

C5_Witness ==
    /\ pc = "done"
    /\ \E i \in IsbnSet :
          /\ methodsAtStart[i] = "plain"
          /\ methodsFile[i] = "api"
          /\ \E k \in CallsOf(i) : log[k].ok /\ log[k].tier = "api"

\* C6: no render call is made during pass 1.
C6_NoRenderInPass1 ==
    \A k \in 1..Len(log) :
        (log[k].e = "call" /\ log[k].pass = 1) => log[k].tier # "render"

\* C7: when the remembered tier of an identifier is inconclusive at its
\* resolution and some other tier would answer conclusively there, the run
\* ends with the identifier's Method Memory entry overwritten by a tier that
\* succeeded.
C7_StaleEntryCorrected ==
    pc = "done" =>
        \A i \in IsbnSet :
            (/\ methodsAtStart[i] # NoMethod
             /\ \E k \in CallsOf(i) :
                   log[k].tier = methodsAtStart[i] /\ ~log[k].ok
             /\ otherWorks[i]) =>
                /\ methodsFile[i] # methodsAtStart[i]
                /\ \E k \in CallsOf(i) : log[k].ok /\ log[k].tier = methodsFile[i]

\* C8: within a pass, a sleep lies between the calls of any two successive
\* resolutions.
C8_SleepBetweenResolutions ==
    \A a, b \in 1..Len(log) :
        (/\ a < b
         /\ log[a].e = "call" /\ log[b].e = "call"
         /\ log[a].pass = log[b].pass
         /\ log[a].isbn # log[b].isbn
         /\ \A k \in (a + 1)..(b - 1) : log[k].e # "call") =>
            \E k \in (a + 1)..(b - 1) : log[k].e = "sleep"

\* C14: every price the api strategy returns in a buyable Outcome denotes,
\* after its rounding to two decimals, a value strictly between 0 and 500.
C14_JsonPriceInBounds ==
    (ext.pc = "done" /\ ext.tier = "api" /\ ext.out # NoneVal /\ ext.out[1].available) =>
        /\ ext.out[1].price # NoneVal
        /\ 0 < ext.out[1].price[1]
        /\ ext.out[1].price[1] < 50000

\* The first tier executed for identifier i in the run.
FirstCallOf(i) == CHOOSE k \in CallsOf(i) : \A j \in CallsOf(i) : k <= j

\* C15: the first tier executed for an identifier in a batch run is the tier
\* its Method Memory entry records, or api when it has no entry; an identifier
\* remembered as render gets no call in pass 1.
C15_FirstTierIsRemembered ==
    \A i \in IsbnSet :
        /\ CallsOf(i) # {} =>
              log[FirstCallOf(i)].tier =
                  (IF methodsAtStart[i] # NoMethod THEN methodsAtStart[i] ELSE "api")
        /\ methodsAtStart[i] = "render" =>
              \A k \in CallsOf(i) : log[k].pass # 1

C15_Witness ==
    \E i \in IsbnSet :
        /\ methodsAtStart[i] = "plain"
        /\ CallsOf(i) # {}
        /\ log[FirstCallOf(i)].tier = "plain"
        /\ \E j \in IsbnSet :
              /\ methodsAtStart[j] = "render"
              /\ CallsOf(j) # {}
              /\ log[FirstCallOf(j)].pass = 2

\* C16: a tier whose response is conclusive ends the resolution: it is the
\* last tier executed, it is the method returned and its Outcome is the result;
\* no tier is executed twice in one resolution.
C16_ConclusiveTierIsTerminal ==
    eng.pc = "done" =>
        LET c == eng.res.calls
        IN /\ \A k \in 1..Len(c) :
                 (TryStrategy(c[k].tier, eng.resp[c[k].tier]) # NoneVal) =>
                     /\ k = Len(c)
                     /\ eng.res.method = c[k].tier
                     /\ eng.res.result = TryStrategy(c[k].tier, eng.resp[c[k].tier])[1]
           /\ \A j, k \in 1..Len(c) : j # k => c[j].tier # c[k].tier

C16_Witness ==
    /\ eng.pc = "done"
    /\ eng.known = "plain"
    /\ Len(eng.res.calls) = 2
    /\ eng.res.calls[1].tier = "plain"
    /\ eng.res.calls[2].tier = "api"
    /\ eng.res.method = "api"
    /\ eng.res.result.available
    /\ TryStrategy("render", eng.resp["render"]) # NoneVal

\* C18: in one batch run the render tier is executed at most once per
\* identifier.
C18_RenderAtMostOnce ==
    \A i \in IsbnSet :
        Cardinality({k \in CallsOf(i) : log[k].tier = "render"}) <= 1

\* C20: a buyable Outcome of an HTML strategy rests on a price announcement or
\* a price blob that lies before the first footer marker of the document.
C20_NoPriceFromFooter ==
    (ext.pc = "done" /\ ext.tier # "api" /\ ext.out # NoneVal /\ ext.out[1].available) =>
        \E k \in 1..Len(ext.resp[1].html) :
            /\ ext.resp[1].html[k].t \in {"du", "blob"}
            /\ \A j \in 1..k : ext.resp[1].html[j].t # "footer"

\* C11: when send_email fails, isbn_methods.json already holds this run's
\* updates and isbn_history.json is as it was loaded; when it succeeds, the
\* history entry of every scanned identifier is today's Outcome.  The history
\* file is written at no other point.
C11_EmailFailureKeepsHistory ==
    /\ pc = "email_failed" =>
          /\ methodsFile = methods
          /\ \A i \in IsbnSet : \A k \in CallsOf(i) :
                log[k].ok => methodsFile[i] = log[k].tier
          /\ historyFile = historyAtStart
    /\ pc = "finished" =>
          \A n \in 1..Len(results) :
              historyFile[results[n].isbn] =
                  Some([available |-> results[n].available, price |-> results[n].price])
    /\ pc # "finished" => historyFile = historyAtStart

C11_Witness ==
    /\ pc = "email_failed"
    /\ methodsFile # methodsAtStart
    /\ historyFile = historyAtStart
    /\ \E n \in 1..Len(results) :
          historyFile[results[n].isbn] #
              Some([available |-> results[n].available, price |-> results[n].price])

\* C12: with the credential missing the run aborts before anything is
\* processed: no call, no Outcome, no read or write of isbn_methods.json, and
\* both persisted files unchanged.
C12_NoKeyAbortsBeforeWork ==
    ~apiKeySet =>
        /\ pc \in {"start", "aborted"}
        /\ log = <<>>
        /\ results = <<>>
        /\ methodsFile = methodsAtStart
        /\ historyFile = historyAtStart

C12_Witness ==
    /\ ~apiKeySet
    /\ pc = "aborted"
    /\ log = <<>>
    /\ results = <<>>
    /\ \E i \in IsbnSet : methodsAtStart[i] \in {NoMethod, "api"}

FileEvents(what) == {k \in 1..Len(log) : log[k].e = what}

\* C13: isbn_methods.json is read once, at the start of the batch, and
\* written once, after the last resolution; until that write the file is what
\* it was before the run.
C13_MemoryReadOnceWrittenOnce ==
    /\ Cardinality(FileEvents("load")) <= 1
    /\ Cardinality(FileEvents("save")) <= 1
    /\ \A k \in FileEvents("load") : k = 1
    /\ \A k \in FileEvents("save") : \A j \in 1..Len(log) : log[j].e = "call" => j < k
    /\ pc \in {"pass1", "pass2", "blocked_in_get", "save"} =>
          FileEvents("load") # {} /\ FileEvents("save") = {}
    /\ pc \in {"done", "reported", "sent", "email_failed", "blocked_in_send",
               "finished"} =>
          FileEvents("load") # {} /\ FileEvents("save") # {}
    /\ FileEvents("save") = {} => methodsFile = methodsAtStart

C13_Witness ==
    /\ pc = "save"
    /\ methods # methodsFile
    /\ methodsFile = methodsAtStart
    /\ pending_render # <<>>
    /\ pidx > Len(pending_render)

ScanReturned ==
    pc \in {"done", "reported", "sent", "email_failed", "blocked_in_send", "finished"}

\* C17: with the credential set scan_all_isbns returns, and the list it
\* returns holds exactly one Outcome for each identifier.
C17_TerminatesOneOutcomeEach ==
    /\ apiKeySet => <>ScanReturned
    /\ [](ScanReturned =>
             /\ Len(results) = Len(Isbns)
             /\ \A i \in IsbnSet :
                   Cardinality({n \in 1..Len(results) : results[n].isbn = i}) = 1)

RowsOf(i) ==
    {<<"available", n>> : n \in {m \in 1..Len(report.available) :
                                    report.available[m].isbn = i}}
    \cup {<<"not_available", n>> : n \in {m \in 1..Len(report.not_available) :
                                            report.not_available[m].isbn = i}}
    \cup {<<"errors", n>> : n \in {m \in 1..Len(report.errors) :
                                     report.errors[m].isbn = i}}

\* C19: every Outcome of the batch is in exactly one of the three sections of
\* the report, the three counts add up to the number scanned, and no change
\* label is computed for an Outcome with an error.
C19_ReportSectionsPartition ==
    pc \in {"reported", "sent", "email_failed", "blocked_in_send", "finished"} =>
        /\ report.total = Len(results)
        /\ Len(report.available) + Len(report.not_available) + Len(report.errors)
              = Len(results)
        /\ \A n \in 1..Len(results) : Cardinality(RowsOf(results[n].isbn)) = 1
        /\ \A n \in 1..Len(report.available) :
              report.available[n].error = NoneVal
        /\ \A n \in 1..Len(report.not_available) :
              report.not_available[n].error = NoneVal
        /\ \A n \in 1..Len(report.errors) : report.errors[n].change = NoneVal

C19_Witness ==
    /\ pc = "reported"
    /\ Len(report.errors) > 0
    /\ Len(report.available) > 0
    /\ report.available[1].change = Some("")

====
